---------------------------- MODULE Spec2Model ----------------------------
(***************************************************************************)
(* Model of the stock pipeline of backend/Stock_Functions.py and of the    *)
(* /api/buy_stock handler of backend/app.py.                               *)
(*                                                                         *)
(* A pandas DataFrame is a record [index, columns, cols]: index is the     *)
(* sequence of row dates, columns the ordered column names and cols maps   *)
(* a column name to its sequence of values.  A float is a pair <<num,den>> *)
(* with den > 0; NaN is <<0,0>>.  Dates are day numbers relative to        *)
(* 2000-01-01 (day 0).                                                     *)
(***************************************************************************)
EXTENDS Integers, Sequences, FiniteSets, TLC

(* ------------------------------ bounds -------------------------------- *)
\* longest raw price history
MaxLen == 6
\* closes range over 1..MaxClose
MaxClose == 2
\* at most MaxPre bars lie before 2000-01-01
MaxPre == 1
\* the horizon list is cut down to <<2, MaxBenchmark>>
MaxBenchmark == 3
\* explicit step sizes range over 1..MaxStep
MaxStep == 3

(* ------------------------------ floats -------------------------------- *)
Num(n) == <<n, 1>>
NaN == <<0, 0>>
Zero == Num(0)
One == Num(1)
isnan(x) == x[2] = 0
\* comparisons with NaN are False, as in IEEE 754 / numpy
gt(a, b) == ~isnan(a) /\ ~isnan(b) /\ a[1] * b[2] > b[1] * a[2]
ge(a, b) == ~isnan(a) /\ ~isnan(b) /\ a[1] * b[2] >= b[1] * a[2]
lt(a, b) == ~isnan(a) /\ ~isnan(b) /\ a[1] * b[2] < b[1] * a[2]
add(a, b) == IF isnan(a) \/ isnan(b) THEN NaN ELSE <<a[1] * b[2] + b[1] * a[2], a[2] * b[2]>>
\* closes are positive, so no division by zero arises (0/0 is NaN)
div(a, b) == IF isnan(a) \/ isnan(b) \/ b[1] = 0 THEN NaN ELSE <<a[1] * b[2], a[2] * b[1]>>
astype_int(b) == IF b THEN One ELSE Zero

(* ---------------------------- DataFrames ------------------------------ *)
RECURSIVE Ascending(_)
\* the positions of the set S in ascending order
Ascending(S) ==
    IF S = {} THEN <<>>
    ELSE LET m == CHOOSE x \in S : \A y \in S : x <= y
         IN  <<m>> \o Ascending(S \ {m})

Take(s, ps) == [j \in 1..Len(ps) |-> s[ps[j]]]

\* a new frame made of the rows at positions ps
Rows(df, ps) ==
    [index |-> Take(df.index, ps),
     columns |-> df.columns,
     cols |-> [c \in DOMAIN df.cols |-> Take(df.cols[c], ps)]]

shape0(df) == Len(df.index)

\* del df[c]
DelCol(df, c) ==
    [index |-> df.index,
     columns |-> SelectSeq(df.columns, LAMBDA x : x # c),
     cols |-> [x \in DOMAIN df.cols \ {c} |-> df.cols[x]]]

\* df[c] = vals : replaces the column, or appends it as the last column
SetCol(df, c, vals) ==
    [index |-> df.index,
     columns |-> IF c \in DOMAIN df.cols THEN df.columns ELSE Append(df.columns, c),
     cols |-> [x \in DOMAIN df.cols \cup {c} |-> IF x = c THEN vals ELSE df.cols[x]]]

\* Series.shift(periods): row k takes the value of row k - periods
shift(s, periods) ==
    [k \in 1..Len(s) |-> IF k - periods \in 1..Len(s) THEN s[k - periods] ELSE NaN]

\* df.loc[floor:] on an ascending date index
loc_from(df, floor) ==
    Rows(df, Ascending({k \in 1..shape0(df) : df.index[k] >= floor}))

\* df.iloc[a:b] for 0 <= a, 0 <= b (python slice, clipped to the length)
iloc(df, a, b) ==
    Rows(df, Ascending({k \in 1..shape0(df) : a < k /\ k <= b}))

\* df.dropna(subset=subset)
dropna(df, subset) ==
    Rows(df, Ascending({k \in 1..shape0(df) : \A c \in subset : ~isnan(df.cols[c][k])}))

(* ----------------------------- clean_data ----------------------------- *)
\* day number of "2000-01-01"
Floor == 0

RawColumns == <<"Open", "High", "Low", "Close", "Volume", "Dividends", "Stock Splits">>

DeletedColumns == <<"Dividends", "Stock Splits", "Volume", "Low", "High", "Open">>

RECURSIVE DelCols(_, _)
DelCols(df, names) ==
    IF names = <<>> THEN df ELSE DelCols(DelCol(df, Head(names)), Tail(names))

target_label_ge(tomorrow, close) == astype_int(ge(tomorrow, close))
\* (data["Tomorrow"] > data["Close"]).astype(int), one row
target_label(tomorrow, close) == astype_int(gt(tomorrow, close))

\* the caller's table after lines 29-36 ran on it
clean_data_inplace(data) ==
    LET d1 == DelCols(data, DeletedColumns)
        d2 == SetCol(d1, "Tomorrow", shift(d1.cols["Close"], -1))
    IN  SetCol(d2, "Target",
               [k \in 1..shape0(d2) |-> target_label(d2.cols["Tomorrow"][k], d2.cols["Close"][k])])

\* the returned frame: data.loc["2000-01-01":].copy()
clean_data(data) == loc_from(clean_data_inplace(data), Floor)

(* --------------------------- add_predictors --------------------------- *)
benchmarks == <<2, MaxBenchmark>>

ratio_column(benchmark) == "Close_Ratio_" \o ToString(benchmark)

RECURSIVE WindowSum(_, _, _)
\* s[k-h+1] + ... + s[k]
WindowSum(s, k, h) == IF h = 0 THEN Zero ELSE add(WindowSum(s, k - 1, h - 1), s[k])

\* Series.rolling(h).mean(): NaN until h observations exist
rolling_mean(s, h) ==
    [k \in 1..Len(s) |-> IF k < h THEN NaN ELSE div(WindowSum(s, k, h), Num(h))]

RECURSIVE add_ratio_columns(_, _)
\* the caller's frame after the loop of lines 71-77 ran over bs
add_ratio_columns(data, bs) ==
    IF bs = <<>> THEN data
    ELSE LET rolling_averages == rolling_mean(data.cols["Close"], Head(bs))
             ratio == [k \in 1..shape0(data) |-> div(data.cols["Close"][k], rolling_averages[k])]
         IN  add_ratio_columns(SetCol(data, ratio_column(Head(bs)), ratio), Tail(bs))

dropna_subset_all(data) == DOMAIN data.cols
\* data.columns[data.columns != "Tomorrow"]
dropna_subset(data) == DOMAIN data.cols \ {"Tomorrow"}

add_predictors_inplace(data) == add_ratio_columns(data, benchmarks)

add_predictors(data) ==
    LET d == add_predictors_inplace(data) IN dropna(d, dropna_subset(d))

(* ------------------------------ predict ------------------------------- *)
\* the cut-off 0.60
Threshold == <<60, 100>>

\* positive-class probabilities the classifier may return for a row
Probs == {<<59, 100>>, <<60, 100>>, <<100, 100>>}

assign_gt(s) == [k \in 1..Len(s) |-> IF gt(s[k], Threshold) THEN One ELSE s[k]]
\* preds_60[preds_60 >= 0.60] = 1
assign_ge(s) == [k \in 1..Len(s) |-> IF ge(s[k], Threshold) THEN One ELSE s[k]]

\* preds_60[preds_60 < 0.60] = 0
assign_lt(s) == [k \in 1..Len(s) |-> IF lt(s[k], Threshold) THEN Zero ELSE s[k]]

\* the classes model.fit saw; predict_proba has one column per class
classes(train) == {train.cols["Target"][k] : k \in 1..shape0(train)}

\* model.fit rejects an empty training set (ValueError); with a single
\* class predict_proba has no column 1 (IndexError at [:, 1])
predict_error(train) ==
    IF shape0(train) = 0 THEN "ValueError"
    ELSE IF Cardinality(classes(train)) < 2 THEN "IndexError"
    ELSE "none"

\* predict, given the column predict_proba(...)[:, 1] as proba
predict(train, test, proba) ==
    LET preds_60 == assign_lt(assign_ge(proba))
    IN  [index |-> test.index,
         columns |-> <<"Target", "Predictions_60%">>,
         cols |-> [c \in {"Target", "Predictions_60%"} |->
                     IF c = "Target" THEN test.cols["Target"] ELSE preds_60]]

(* ------------------------------ backtest ------------------------------ *)
\* default step of backtest
DefaultStep == 21 * 3

backtest_train_leak(df, i) == iloc(df, 0, i + 1)
\* train = data.iloc[0:i].copy()
backtest_train(df, i) == iloc(df, 0, i)

backtest_test_overlap(df, i, stp) == iloc(df, i, i + stp + 1)
\* test = data.iloc[i:(i + step)].copy()
backtest_test(df, i, stp) == iloc(df, i, i + stp)

RECURSIVE concat(_)
\* pd.concat of a non-empty list of frames with the same columns
concat(frames) ==
    IF Len(frames) = 1 THEN frames[1]
    ELSE LET f == frames[1]
             r == concat(Tail(frames))
         IN  [index |-> f.index \o r.index,
              columns |-> f.columns,
              cols |-> [c \in DOMAIN f.cols |-> f.cols[c] \o r.cols[c]]]

\* start_value = data.shape[0] // 5
start_value(df) == shape0(df) \div 5

(* ----------------------------- /api/buy_stock ------------------------- *)
should_buy_stock_first(predictions) ==
    LET v == predictions.cols[predictions.columns[2]][1]
    IN  IF v[1] # 0 \/ isnan(v) THEN "Yes" ELSE "No"
\* "Yes" if bool(predictions.iloc[-1][1]) else "No"
should_buy_stock(predictions) ==
    LET v == predictions.cols[predictions.columns[2]][shape0(predictions)]
    IN  IF v[1] # 0 \/ isnan(v) THEN "Yes" ELSE "No"

is_one(x) == ~isnan(x) /\ x[1] = x[2]

\* sklearn precision_score, binary, pos_label=1, zero_division="warn":
\* tp / (tp + fp), and 0.0 when nothing is predicted positive
precision_score(y_true, y_pred) ==
    LET pp == Cardinality({k \in 1..Len(y_pred) : is_one(y_pred[k])})
        tp == Cardinality({k \in 1..Len(y_pred) : is_one(y_pred[k]) /\ is_one(y_true[k])})
    IN  IF pp = 0 THEN Zero ELSE <<tp, pp>>

\* x rounded to the nearest integer, ties to even, for x = num/den >= 0
round_half_even(num, den) ==
    LET q == num \div den
        r == num % den
    IN  IF 2 * r > den \/ (2 * r = den /\ q % 2 = 1) THEN q + 1 ELSE q

\* f"{score * 100:.2f}%"
format_percent(score) ==
    LET h == round_half_even(score[1] * 10000, score[2])
        c == h % 100
    IN  ToString(h \div 100) \o "." \o ToString(c \div 10) \o ToString(c % 10) \o "%"

(* ------------------------------- state -------------------------------- *)
\* pc: position in buy_stock; raw: the table get_stock_data returned;
\* cleaned: the frame clean_data returned; data: the frame add_predictors
\* returned; raw0, cleaned0, data0: those frames as first handed over;
\* windows: the (i, train, test) triples predict was called with;
\* preds: the probabilities of the latest window.
VARIABLES pc, raw, raw0, cleaned, cleaned0, data, data0, start, step, i,
          all_predictions, windows, preds, predictions, err, res

vars == <<pc, raw, raw0, cleaned, cleaned0, data, data0, start, step, i,
          all_predictions, windows, preds, predictions, err, res>>

EmptyFrame == [index |-> <<>>, columns |-> <<>>, cols |-> <<>>]

Closes == UNION {[1..n -> 1..MaxClose] : n \in 1..MaxLen}

\* the table get_stock_data returns: ascending consecutive dates
RawFrame(closes, pre) ==
    [index |-> [k \in 1..Len(closes) |-> Floor - pre + k - 1],
     columns |-> RawColumns,
     cols |-> [c \in {RawColumns[j] : j \in 1..Len(RawColumns)} |->
                 [k \in 1..Len(closes) |-> Num(closes[k])]]]

NoResponse == [should_buy_stock |-> "", buy_stock_precision_score |-> ""]

Init ==
    /\ pc = "clean_data"
    /\ \E closes \in Closes, pre \in 0..MaxPre : raw = RawFrame(closes, pre)
    /\ raw0 = raw
    /\ cleaned = EmptyFrame
    /\ cleaned0 = EmptyFrame
    /\ data = EmptyFrame
    /\ data0 = EmptyFrame
    /\ start = 0
    /\ step = 0
    /\ i = 0
    /\ all_predictions = <<>>
    /\ windows = <<>>
    /\ preds = <<>>
    /\ predictions = EmptyFrame
    /\ err = "none"
    /\ res = NoResponse

\* data = clean_data(data)
CleanData ==
    /\ pc = "clean_data"
    /\ raw' = clean_data_inplace(raw)
    /\ cleaned' = clean_data(raw)
    /\ cleaned0' = cleaned'
    /\ pc' = "add_predictors"
    /\ UNCHANGED <<raw0, data, data0, start, step, i, all_predictions, windows,
                   preds, predictions, err, res>>

\* data, new_predictors = add_predictors(data)
AddPredictors ==
    /\ pc = "add_predictors"
    /\ cleaned' = add_predictors_inplace(cleaned)
    /\ data' = add_predictors(cleaned)
    /\ data0' = data'
    /\ pc' = "backtest"
    /\ UNCHANGED <<raw, raw0, cleaned0, start, step, i, all_predictions, windows,
                   preds, predictions, err, res>>

\* the (start, step) pairs backtest is entered with: buy_stock passes
\* start_value and the default step, other callers any start >= 0, step > 0
BacktestArgs(df) ==
    {<<start_value(df), DefaultStep>>} \cup ((0..shape0(df)) \X (1..MaxStep))

\* entry of backtest
Backtest ==
    /\ pc = "backtest"
    /\ \E args \in BacktestArgs(data) :
          /\ start' = args[1]
          /\ step' = args[2]
          /\ i' = args[1]
    /\ all_predictions' = <<>>
    /\ pc' = "loop"
    /\ UNCHANGED <<raw, raw0, cleaned, cleaned0, data, data0, windows, preds,
                   predictions, err, res>>

Window(df, k, stp) ==
    [i |-> k, train |-> backtest_train(df, k).index, test |-> backtest_test(df, k, stp).index]

\* one iteration of the loop of backtest in which predict returns
BacktestWindow ==
    /\ pc = "loop"
    /\ i < shape0(data)
    /\ LET train == backtest_train(data, i)
           test == backtest_test(data, i, step)
       IN  /\ predict_error(train) = "none"
           /\ \E proba \in [1..shape0(test) -> Probs] :
                 /\ preds' = proba
                 /\ all_predictions' = Append(all_predictions, predict(train, test, proba))
    /\ windows' = Append(windows, Window(data, i, step))
    /\ i' = i + step
    /\ UNCHANGED <<pc, raw, raw0, cleaned, cleaned0, data, data0, start, step,
                   predictions, err, res>>

\* one iteration of the loop of backtest in which predict raises
BacktestWindowRaises ==
    /\ pc = "loop"
    /\ i < shape0(data)
    /\ predict_error(backtest_train(data, i)) # "none"
    /\ err' = predict_error(backtest_train(data, i))
    /\ windows' = Append(windows, Window(data, i, step))
    /\ pc' = "error"
    /\ UNCHANGED <<raw, raw0, cleaned, cleaned0, data, data0, start, step, i,
                   all_predictions, preds, predictions, res>>

\* res = pd.concat(all_predictions); return res
BacktestReturn ==
    /\ pc = "loop"
    /\ i >= shape0(data)
    /\ all_predictions # <<>>
    /\ predictions' = concat(all_predictions)
    /\ pc' = "evaluate"
    /\ UNCHANGED <<raw, raw0, cleaned, cleaned0, data, data0, start, step, i,
                   all_predictions, windows, preds, err, res>>

\* pd.concat([]) raises ValueError("No objects to concatenate")
BacktestConcatRaises ==
    /\ pc = "loop"
    /\ i >= shape0(data)
    /\ all_predictions = <<>>
    /\ err' = "ValueError"
    /\ pc' = "error"
    /\ UNCHANGED <<raw, raw0, cleaned, cleaned0, data, data0, start, step, i,
                   all_predictions, windows, preds, predictions, res>>

\* the rest of the /api/buy_stock handler
BuyStock ==
    /\ pc = "evaluate"
    /\ res' = [should_buy_stock |-> should_buy_stock(predictions),
               buy_stock_precision_score |->
                   format_percent(precision_score(predictions.cols["Target"],
                                                  predictions.cols["Predictions_60%"]))]
    /\ pc' = "done"
    /\ UNCHANGED <<raw, raw0, cleaned, cleaned0, data, data0, start, step, i,
                   all_predictions, windows, preds, predictions, err>>

Next ==
    \/ CleanData
    \/ AddPredictors
    \/ Backtest
    \/ BacktestWindow
    \/ BacktestWindowRaises
    \/ BacktestReturn
    \/ BacktestConcatRaises
    \/ BuyStock

Spec == Init /\ [][Next]_vars

(* ------------------------------ properties ---------------------------- *)
Min(a, b) == IF a < b THEN a ELSE b

Range(s) == {s[k] : k \in 1..Len(s)}

MaxHorizon == CHOOSE h \in Range(benchmarks) : \A g \in Range(benchmarks) : g <= h

Ascends(s) == \A a, b \in 1..Len(s) : a < b => s[a] < s[b]

RECURSIVE SumClose(_, _, _)
\* the closes of rows a..b of frame df, added up as integers
SumClose(df, a, b) == IF a > b THEN 0 ELSE df.cols["Close"][b][1] + SumClose(df, a, b - 1)

RECURSIVE Tests(_)
\* the test ranges of the windows ws, one after the other
Tests(ws) == IF ws = <<>> THEN <<>> ELSE Head(ws).test \o Tests(Tail(ws))

BacktestReturned == pc \in {"evaluate", "done"}

\* C1: the k-th window of backtest has i = start + (k-1)*step < len(data), is
\* fit on exactly the rows [0, i) and predicts exactly the rows
\* [i, min(i+step, len(data))); every fitted row is strictly earlier than
\* every predicted row; a backtest that returns has formed every such window.
C1_WalkForward ==
    /\ \A k \in 1..Len(windows) :
          LET W == windows[k]
          IN  /\ W.i = start + (k - 1) * step
              /\ W.i < shape0(data)
              /\ W.train = SubSeq(data.index, 1, W.i)
              /\ W.test = SubSeq(data.index, W.i + 1, Min(W.i + step, shape0(data)))
              /\ \A a \in Range(W.train), b \in Range(W.test) : a < b
              /\ Range(W.train) \cap Range(W.test) = {}
    /\ BacktestReturned => start + Len(windows) * step >= shape0(data)

C1_Witness ==
    /\ pc = "evaluate"
    /\ Len(windows) >= 2
    /\ Len(windows[1].train) >= 2
    /\ Len(windows[2].train) > Len(windows[1].train)
    /\ Len(windows[2].test) >= 1

\* C2: when 0 < start < len(data), the result of backtest has exactly one row
\* for each row index in [start, len(data)), in strictly ascending date
\* order, len(data) - start rows in all, and the windows' test ranges are
\* pairwise disjoint and contiguous.
C2_Coverage ==
    (BacktestReturned /\ 0 < start /\ start < shape0(data)) =>
        /\ predictions.index = SubSeq(data.index, start + 1, shape0(data))
        /\ shape0(predictions) = shape0(data) - start
        /\ Ascends(predictions.index)
        /\ Tests(windows) = predictions.index
        /\ \A a, b \in 1..Len(windows) :
              a # b => Range(windows[a].test) \cap Range(windows[b].test) = {}
        /\ \A c \in DOMAIN predictions.cols : Len(predictions.cols[c]) = shape0(data) - start

C2_Witness ==
    /\ BacktestReturned
    /\ 0 < start
    /\ start < shape0(data)
    /\ shape0(predictions) >= 2
    /\ Len(windows[Len(windows)].test) < step

\* C3: a backtest called with start >= len(data) forms no window and returns
\* an empty prediction sequence as a normal result, not an error.
C3_EmptyResult ==
    (pc \in {"evaluate", "done", "error"} /\ start >= shape0(data)) =>
        /\ pc # "error"
        /\ err = "none"
        /\ shape0(predictions) = 0

\* C4: for every test row of a window the emitted label is 1 iff the
\* positive-class probability is >= 0.60 and 0 otherwise; it is always 0 or 1.
C4_Threshold ==
    all_predictions # <<>> =>
        LET labels == all_predictions[Len(all_predictions)].cols["Predictions_60%"]
        IN  /\ Len(labels) = Len(preds)
            /\ \A k \in 1..Len(preds) :
                  /\ labels[k] \in {Zero, One}
                  /\ labels[k] = One <=> preds[k][1] * 100 >= 60 * preds[k][2]

C4_Witness ==
    /\ all_predictions # <<>>
    /\ \E a, b \in 1..Len(preds) :
          /\ preds[a] = <<60, 100>>
          /\ preds[b] = <<59, 100>>
          /\ all_predictions[Len(all_predictions)].cols["Predictions_60%"][a] = One
          /\ all_predictions[Len(all_predictions)].cols["Predictions_60%"][b] = Zero

\* C5: for an input of n >= 2 bars, clean_data returns bars in input order
\* and every returned bar k that is not the last input bar has
\* Tomorrow = Close[k+1] of the input and Target = 1 iff Close[k+1] > Close[k],
\* also when bar k is the first bar kept by the date-floor cut.
C5_Labels ==
    (pc # "clean_data" /\ shape0(raw0) >= 2) =>
        LET n == shape0(raw0)
            off == n - shape0(cleaned0)
            close == raw0.cols["Close"]
        IN  /\ cleaned0.index = SubSeq(raw0.index, off + 1, n)
            /\ Ascends(cleaned0.index)
            /\ \A j \in 1..shape0(cleaned0) :
                  LET k == off + j
                  IN  /\ cleaned0.cols["Close"][j] = close[k]
                      /\ k < n => /\ cleaned0.cols["Tomorrow"][j] = close[k + 1]
                                  /\ cleaned0.cols["Target"][j] =
                                         (IF close[k + 1][1] > close[k][1] THEN One ELSE Zero)

C5_Witness ==
    /\ pc = "add_predictors"
    /\ raw0.index[1] < Floor
    /\ shape0(cleaned0) >= 3
    /\ cleaned0.cols["Target"][1] = One
    /\ cleaned0.cols["Target"][2] = Zero
    /\ cleaned0.cols["Close"][2] = cleaned0.cols["Close"][3]

TomorrowAt(date) ==
    data.cols["Tomorrow"][CHOOSE k \in 1..shape0(data) : data.index[k] = date]

\* C6: every row that a window of backtest trains on or predicts has its
\* next-day close defined; the final bar never is in a train or test range
\* and never yields a (target, prediction) pair.
C6_LabelsDefined ==
    /\ \A w \in 1..Len(all_predictions) :
          \A d \in Range(windows[w].train) \cup Range(windows[w].test) : ~isnan(TomorrowAt(d))
    /\ BacktestReturned => \A d \in Range(predictions.index) : ~isnan(TomorrowAt(d))

\* C7: add_predictors returns exactly the rows of the cleaned series with
\* zero-based index >= H-1 (H the largest horizon), in order and without a
\* gap, and each returned row's feature for horizon h is its close divided
\* by the mean of its close and the h-1 closes before it.
C7_Features ==
    pc \notin {"clean_data", "add_predictors"} =>
        LET n == shape0(cleaned0)
            H == MaxHorizon
        IN  /\ data0.index = SubSeq(cleaned0.index, H, n)
            /\ shape0(data0) = (IF n >= H THEN n - (H - 1) ELSE 0)
            /\ \A j \in 1..shape0(data0) :
                  LET k == j + H - 1
                  IN  /\ data0.cols["Close"][j] = cleaned0.cols["Close"][k]
                      /\ data0.cols["Target"][j] = cleaned0.cols["Target"][k]
                      /\ \A h \in Range(benchmarks) :
                            LET f == data0.cols[ratio_column(h)][j]
                            IN  /\ ~isnan(f)
                                /\ f[1] * SumClose(cleaned0, k - h + 1, k)
                                       = f[2] * h * cleaned0.cols["Close"][k][1]

C7_Witness ==
    /\ pc = "backtest"
    /\ shape0(data0) >= 2
    /\ shape0(cleaned0) = shape0(data0) + MaxHorizon - 1
    /\ \E j \in 1..shape0(data0) :
          ~(data0.cols[ratio_column(MaxHorizon)][j][1] = data0.cols[ratio_column(MaxHorizon)][j][2])

Positives == {k \in 1..shape0(predictions) : predictions.cols["Predictions_60%"][k] = One}

TruePositives == {k \in Positives : predictions.cols["Target"][k] = One}

\* C8: with no predicted label 1 the summary ends in UndefinedPrecisionError
\* and reports no numeric score; otherwise the precision is
\* (# target 1 and predicted 1) / (# predicted 1).
C8_UndefinedPrecision ==
    pc = "done" =>
        IF Positives = {}
        THEN err = "UndefinedPrecisionError" /\ res.buy_stock_precision_score = ""
        ELSE res.buy_stock_precision_score
                 = format_percent(<<Cardinality(TruePositives), Cardinality(Positives)>>)

\* C9: for a non-empty prediction sequence the final decision is "Yes" iff
\* the predicted label of the chronologically last prediction row (the last
\* row of the last window) is 1, and "No" otherwise.
C9_LatestDecision ==
    pc = "done" =>
        LET last == all_predictions[Len(all_predictions)]
            label == last.cols["Predictions_60%"][shape0(last)]
        IN  /\ shape0(predictions) > 0
            /\ \A k \in 1..shape0(predictions) :
                  predictions.index[k] <= last.index[shape0(last)]
            /\ res.should_buy_stock = (IF label = One THEN "Yes" ELSE "No")

C9_Witness ==
    /\ pc = "done"
    /\ shape0(predictions) >= 2
    /\ res.should_buy_stock = "Yes"
    /\ predictions.cols["Predictions_60%"][1] = Zero
    /\ predictions.cols["Target"][1] = One
    /\ predictions.cols["Target"][shape0(predictions)] = Zero

\* C10: no stage changes a frame it was handed: the raw table is as before
\* after clean_data, the cleaned series is as before after add_predictors,
\* and backtest leaves the feature rows unchanged.
C10_NoMutation ==
    /\ pc # "clean_data" => raw = raw0
    /\ pc \notin {"clean_data", "add_predictors"} => cleaned = cleaned0 /\ data = data0

=============================================================================
